---- MODULE Spec2Model ----
(***************************************************************************)
(* Gravitational N-body engine of simulacionCuatroCuerpos2D.py and         *)
(* simulacionDosCuerpos2D.py: Body, accelerations, step_verlet,            *)
(* to_com_frame, the scenario set-up and the animation callback update.    *)
(*                                                                         *)
(* Numbers.  The program computes in IEEE-754 binary64: every *, / and     *)
(* sqrt rounds its exact result to the nearest representable value, ties   *)
(* to even.  Here a real x is the integer x * Scale and every *, / and     *)
(* sqrt rounds its exact result to the nearest multiple of 1/Scale, ties   *)
(* to even (Mul, Div, Sqrt).  Sums and differences are exact.  One unit    *)
(* (1/Scale) is written "ulp" below.                                        *)
(*                                                                         *)
(* Indices are 1-based: the code's bodies[i], i in 0..N-1, is bodies[i+1]. *)
(***************************************************************************)
EXTENDS Integers, Sequences, FiniteSets, TLC

\* ------------------------------------------------------------------ bounds
MaxBodies == 4      \* longest body list the set-up builds
MaxCalls  == 2      \* calls the driver makes after the initial to_com_frame

\* --------------------------------------------------------------- constants
Scale     == 1000   \* resolution of the arithmetic: 1 ulp = 1/Scale
G         == 1000   \* G = 1.0
DT        == 10     \* DT = 0.01
SUBSTEPS  == 5
EPS2      == 1      \* EPS2 = 1e-3
TRAIL_LEN == 2400
HALF      == 500    \* the literal 0.5 of step_verlet
ONE       == 1000   \* the literal 1.0 of accelerations

\* Largest k whose square is a 32-bit integer: the square root search stays below it.
SqrtCap == 46340

\* -------------------------------------------------------------- arithmetic
Abs(n) == IF n < 0 THEN -n ELSE n
Sgn(n) == IF n < 0 THEN -1 ELSE 1

\* n / d rounded to the nearest integer, ties to even (d # 0).
RndDiv(n, d) ==
  LET an == Abs(n)
      ad == Abs(d)
      q  == an \div ad
      r  == an % ad
      up == (2 * r > ad) \/ (2 * r = ad /\ q % 2 = 1)
  IN  Sgn(n) * Sgn(d) * (IF up THEN q + 1 ELSE q)

Mul(a, b) == RndDiv(a * b, Scale)
Div(a, b) == RndDiv(a * Scale, b)

RECURSIVE Bisect(_, _, _)
\* floor(sqrt(n)) given lo*lo <= n and lo <= hi
Bisect(n, lo, hi) ==
  IF hi - lo <= 1
    THEN (IF hi * hi <= n THEN hi ELSE lo)
    ELSE LET mid == (lo + hi) \div 2
         IN  IF mid * mid <= n THEN Bisect(n, mid, hi) ELSE Bisect(n, lo, mid)

\* math.sqrt: the square root of a >= 0, rounded to the nearest ulp.
Sqrt(a) ==
  LET n == a * Scale
      k == Bisect(n, 0, SqrtCap)
  IN  IF n - k * k > k THEN k + 1 ELSE k

\* 2-vectors (numpy arrays of shape (2,))
Zero2        == <<0, 0>>
VAdd(u, w)   == <<u[1] + w[1], u[2] + w[2]>>
VSub(u, w)   == <<u[1] - w[1], u[2] - w[2]>>
VScale(s, u) == <<Mul(s, u[1]), Mul(s, u[2])>>
VDiv(u, s)   == <<Div(u[1], s), Div(u[2], s)>>

RECURSIVE SumSeq(_)
SumSeq(s) == IF s = <<>> THEN 0 ELSE Head(s) + SumSeq(Tail(s))

RECURSIVE VSumSeq(_)
VSumSeq(s) == IF s = <<>> THEN Zero2 ELSE VAdd(Head(s), VSumSeq(Tail(s)))

\* ------------------------------------------------------------------- state
VARIABLES
  bodies,    \* the list `bodies`: records r, v, m, color, trail, a
  scatters,  \* offsets last given to scatters[idx].set_offsets
  lines,     \* data last given to lines[idx].set_data
  pc,        \* where the program is
  caller,    \* who called step_verlet: "main" or "update"
  sub,       \* iterations of update's sub-step loop completed
  dt,        \* step_verlet's argument dt
  aret,      \* where the running accelerations call returns to
  i, j,      \* accelerations' loop indices
  k,         \* index of the `for b in bodies` loop of step_verlet
  visited,   \* instrumentation: the pairs the running (or last) accelerations call evaluated, in order
  entry,     \* instrumentation: `bodies` as the running (or last) step_verlet call received it
  nsteps,    \* instrumentation: step_verlet calls completed
  calls      \* calls the driver has made after the initial to_com_frame

vars == <<bodies, scatters, lines, pc, caller, sub, dt, aret, i, j, k,
          visited, entry, nsteps, calls>>

N == Len(bodies)

\* Body.__init__
NewBody(x, y, vx, vy, m, color) ==
  [r |-> <<x, y>>, v |-> <<vx, vy>>, m |-> m, color |-> color,
   trail |-> <<>>, a |-> Zero2]

\* ------------------------------------------------------------------ inputs
\* The four bodies of setup_four_bodies, then two bodies whose mass is not
\* positive.
Catalogue ==
  << NewBody(-3000,  2400, -800,   0, 1000, "tab:red"),
     NewBody(    0,     0,    0,   0, 2000, "tab:gray"),
     NewBody( 3400,  2800,  800,   0, 3000, "tab:blue"),
     NewBody( 1200, -3200,  600, 350,  600, "tab:green"),
     NewBody(-1000, -1000,    0, 500,    0, "tab:olive"),
     NewBody( 2000, -1000, -500,   0, -1000, "tab:pink") >>

CatIndex(color) == CHOOSE c \in 1..Len(Catalogue) : Catalogue[c].color = color

\* Arguments <<m1, m2, D>> given to setup_two_bodies; the first is the script's.
TwoBodyArgs ==
  { <<1000, 3000, 6000>>, <<2000, 2000, 4000>>, <<0, 3000, 6000>>,
    <<-3000, 3000, 6000>>, <<-3000, 1000, 6000>> }

\* dt given to step_verlet by a caller other than update
StepDts == {DT, 500}

\* --------------------------------------------------------------- functions
\* The inner-loop body of accelerations up to fvec, for bodies bi and bj:
\* dr, dist2, inv_r, inv_r3, fvec = G * mi * mj * dr * inv_r3.
PairForce(bi, bj) ==
  LET dr     == VSub(bj.r, bi.r)
      dist2  == Mul(dr[1], dr[1]) + Mul(dr[2], dr[2]) + EPS2
      inv_r  == Div(ONE, Sqrt(dist2))
      inv_r3 == Div(inv_r, dist2)
  IN  VScale(inv_r3, VScale(Mul(Mul(G, bi.m), bj.m), dr))

\* NextPair with the inner loop over range(i, N).
NextPairFromSelf(a, b, n) ==
  IF b < n THEN <<a, b + 1>>
  ELSE IF a + 1 <= n - 1 THEN <<a + 1, a + 1>>
  ELSE <<>>

\* The pair accelerations evaluates after <<a, b>>, or <<>> when <<a, b>> is
\* the last: j runs over range(i + 1, N) inside i over range(N - 1).
NextPair(a, b, n) ==
  IF b < n THEN <<a, b + 1>>
  ELSE IF a + 1 <= n - 1 THEN <<a + 1, a + 2>>
  ELSE <<>>

\* The first pair, or <<>> when range(N - 1) is empty.
FirstPair(n) == IF 1 <= n - 1 THEN <<1, 2>> ELSE <<>>

\* ResetA without the reset.
ResetANothing(bs) == bs

\* `for b in bodies: b.a[:] = 0.0`
ResetA(bs) == [x \in 1..Len(bs) |-> [bs[x] EXCEPT !.a = Zero2]]

\* ApplyPair with `+=` on both lines.
ApplyPairSameSign(bs, a, b) ==
  LET fvec == PairForce(bs[a], bs[b])
  IN  [bs EXCEPT ![a].a = VAdd(@, VDiv(fvec, bs[a].m)),
                 ![b].a = VAdd(@, VDiv(fvec, bs[b].m))]

\* `bodies[i].a += fvec / mi ; bodies[j].a -= fvec / mj`
ApplyPair(bs, a, b) ==
  LET fvec == PairForce(bs[a], bs[b])
  IN  [bs EXCEPT ![a].a = VAdd(@, VDiv(fvec, bs[a].m)),
                 ![b].a = VSub(@, VDiv(fvec, bs[b].m))]

\* A float division by a zero mass: numpy gives nan or inf and a warning,
\* no exception.
PairNonFinite(bs, a, b) == bs[a].m = 0 \/ bs[b].m = 0

\* 0.5 * dt
HalfDt(d) == Mul(HALF, d)

\* KickDrift with the position advanced by the old velocity.
KickDriftOldV(b, d) ==
  LET v_half == VAdd(b.v, VScale(HalfDt(d), b.a))
  IN  [b EXCEPT !.r = VAdd(b.r, VScale(d, b.v)), !.v = v_half]

\* First loop body of step_verlet for one body: v_half, r += dt * v_half,
\* v = v_half.
KickDrift(b, d) ==
  LET v_half == VAdd(b.v, VScale(HalfDt(d), b.a))
  IN  [b EXCEPT !.r = VAdd(b.r, VScale(d, v_half)), !.v = v_half]

\* Kick without the velocity update.
KickNothing(b, d) == b

\* Second loop body of step_verlet for one body: v += 0.5 * dt * a.
Kick(b, d) == [b EXCEPT !.v = VAdd(b.v, VScale(HalfDt(d), b.a))]

\* M, r_com, v_com of to_com_frame
TotalMass(bs) == SumSeq([x \in 1..Len(bs) |-> bs[x].m])
\* r_com divided by len(bodies) instead of M.
RComByCount(bs) ==
  VDiv(VSumSeq([x \in 1..Len(bs) |-> VScale(bs[x].m, bs[x].r)]), Len(bs) * Scale)

RCom(bs) == VDiv(VSumSeq([x \in 1..Len(bs) |-> VScale(bs[x].m, bs[x].r)]), TotalMass(bs))
\* v_com divided by len(bodies) instead of M.
VComByCount(bs) ==
  VDiv(VSumSeq([x \in 1..Len(bs) |-> VScale(bs[x].m, bs[x].v)]), Len(bs) * Scale)

VCom(bs) == VDiv(VSumSeq([x \in 1..Len(bs) |-> VScale(bs[x].m, bs[x].v)]), TotalMass(bs))

\* ToCom that also clears the acceleration cache.
ToComClearsA(bs) ==
  LET r_com == RCom(bs)
      v_com == VCom(bs)
  IN  [x \in 1..Len(bs) |->
         [bs[x] EXCEPT !.r = VSub(@, r_com), !.v = VSub(@, v_com), !.a = Zero2]]

\* The subtraction loop of to_com_frame.
ToCom(bs) ==
  LET r_com == RCom(bs)
      v_com == VCom(bs)
  IN  [x \in 1..Len(bs) |->
         [bs[x] EXCEPT !.r = VSub(@, r_com), !.v = VSub(@, v_com)]]

\* deque(maxlen=TRAIL_LEN).append
DequeAppend(q, e) ==
  IF Len(q) >= TRAIL_LEN THEN Append(Tail(q), e) ELSE Append(q, e)

\* xs, ys = zip(*trail)
Unzip(q) == << [x \in 1..Len(q) |-> q[x][1]], [x \in 1..Len(q) |-> q[x][2]] >>

\* setup_two_bodies(m1, m2, D) when it returns
TwoBodies(m1, m2, D) ==
  LET M     == m1 + m2
      r1x   == -Mul(D, Div(m2, M))
      r2x   == Mul(D, Div(m1, M))
      omega == Sqrt(Div(Mul(G, M), Mul(Mul(D, D), D)))
      v1y   == Mul(omega, Abs(r1x))
      v2y   == -Mul(omega, Abs(r2x))
  IN  << NewBody(r1x, 0, 0, v1y, m1, "tab:orange"),
         NewBody(r2x, 0, 0, v2y, m2, "tab:blue") >>

\* setup_four_bodies()
FourBodies == << Catalogue[1], Catalogue[2], Catalogue[3], Catalogue[4] >>

\* ----------------------------------------------------------- control flow
\* Between two calls of the driver; the name tells which call returned last.
Idle == {"done_com", "done_acc", "done_step", "done_update"}

\* Where accelerations returns to.
AfterAcc(ret) ==
  CASE ret = "main" -> "done_acc"
    [] ret = "sv1"  -> "sv_loop1"
    [] ret = "sv2"  -> "sv_loop2"

\* Where step_verlet returns to: the driver, or the head of update's loop.
StepReturn(who) == IF who = "update" THEN "upd_loop" ELSE "done_step"

\* The `for b in bodies` loop that has just handled body kk of n is over.
LoopDone(kk, n) == kk >= n

Init ==
  /\ bodies = <<>>
  /\ scatters = <<>>
  /\ lines = <<>>
  /\ pc = "setup"
  /\ caller = "main"
  /\ sub = 0
  /\ dt = DT
  /\ aret = "main"
  /\ i = 1
  /\ j = 2
  /\ k = 1
  /\ visited = <<>>
  /\ entry = <<>>
  /\ nsteps = 0
  /\ calls = 0

\* ------------------------------------------------------------ construction
\* Body(...): one more body for the list under construction.  The bodies are
\* taken from Catalogue in increasing order.
Body(c) ==
  /\ pc = "setup"
  /\ N < MaxBodies
  /\ N > 0 => c > CatIndex(bodies[N].color)
  /\ bodies' = Append(bodies, Catalogue[c])
  /\ UNCHANGED <<scatters, lines, pc, caller, sub, dt, aret, i, j, k,
                 visited, entry, nsteps, calls>>

\* bodies = setup_four_bodies()
SetupFourBodies ==
  /\ pc = "setup"
  /\ bodies = <<>>
  /\ bodies' = FourBodies
  /\ pc' = "built"
  /\ UNCHANGED <<scatters, lines, caller, sub, dt, aret, i, j, k,
                 visited, entry, nsteps, calls>>

\* bodies = setup_two_bodies(m1, m2, D).  m2 / M and G * M / D**3 are float
\* divisions (ZeroDivisionError), math.sqrt of a negative is a ValueError.
SetupTwoBodies(m1, m2, D) ==
  /\ pc = "setup"
  /\ bodies = <<>>
  /\ IF m1 + m2 = 0 \/ Mul(Mul(D, D), D) = 0
       THEN pc' = "ZeroDivisionError" /\ bodies' = bodies
     ELSE IF Div(Mul(G, m1 + m2), Mul(Mul(D, D), D)) < 0
       THEN pc' = "ValueError" /\ bodies' = bodies
     ELSE pc' = "built" /\ bodies' = TwoBodies(m1, m2, D)
  /\ UNCHANGED <<scatters, lines, caller, sub, dt, aret, i, j, k,
                 visited, entry, nsteps, calls>>

\* ------------------------------------------------------------ to_com_frame
\* bodies' and pc' of a to_com_frame call that returns to `done`.  With an
\* empty list M is the int 0 and 0 / 0 raises; with M = 0.0 the numpy
\* division gives nan or inf, which the model follows no further.
ComEffect(done) ==
  IF N = 0
    THEN pc' = "ZeroDivisionError" /\ bodies' = bodies
  ELSE IF TotalMass(bodies) = 0
    THEN pc' = "nonfinite" /\ bodies' = bodies
  ELSE pc' = done /\ bodies' = ToCom(bodies)

\* The script's to_com_frame(bodies), then the scatters and lines it builds.
ScriptToComFrame ==
  /\ pc \in {"setup", "built"}
  /\ ComEffect("done_com")
  /\ scatters' = [x \in 1..N |-> bodies'[x].r]
  /\ lines' = [x \in 1..N |-> << <<>>, <<>> >>]
  /\ UNCHANGED <<caller, sub, dt, aret, i, j, k, visited, entry, nsteps, calls>>

\* A later to_com_frame(bodies).
CallToComFrame ==
  /\ pc \in Idle
  /\ calls < MaxCalls
  /\ calls' = calls + 1
  /\ ComEffect("done_com")
  /\ UNCHANGED <<scatters, lines, caller, sub, dt, aret, i, j, k,
                 visited, entry, nsteps>>

\* ----------------------------------------------------------- accelerations
\* accelerations(bodies) called by the driver.
CallAccelerations ==
  /\ pc \in Idle
  /\ calls < MaxCalls
  /\ calls' = calls + 1
  /\ pc' = "acc_reset"
  /\ aret' = "main"
  /\ UNCHANGED <<bodies, scatters, lines, caller, sub, dt, i, j, k,
                 visited, entry, nsteps>>

\* The reset loop, N = len(bodies), and entry into the pair loops.
AccReset ==
  /\ pc = "acc_reset"
  /\ bodies' = ResetA(bodies)
  /\ visited' = <<>>
  /\ LET p == FirstPair(N)
     IN  IF p = <<>>
           THEN pc' = AfterAcc(aret) /\ UNCHANGED <<i, j>>
           ELSE pc' = "acc_pair" /\ i' = p[1] /\ j' = p[2]
  /\ k' = 1
  /\ UNCHANGED <<scatters, lines, caller, sub, dt, aret, entry, nsteps, calls>>

\* One execution of the inner loop body, for the pair (i, j).
AccPair ==
  /\ pc = "acc_pair"
  /\ IF PairNonFinite(bodies, i, j)
       THEN /\ pc' = "nonfinite"
            /\ UNCHANGED <<bodies, visited, i, j>>
       ELSE /\ bodies' = ApplyPair(bodies, i, j)
            /\ visited' = Append(visited, <<i, j>>)
            /\ LET p == NextPair(i, j, N)
               IN  IF p = <<>>
                     THEN pc' = AfterAcc(aret) /\ UNCHANGED <<i, j>>
                     ELSE pc' = "acc_pair" /\ i' = p[1] /\ j' = p[2]
  /\ k' = 1
  /\ UNCHANGED <<scatters, lines, caller, sub, dt, aret, entry, nsteps, calls>>

\* ------------------------------------------------------------- step_verlet
\* step_verlet(bodies, d) called by the driver; its first statement is
\* accelerations(bodies).
CallStepVerlet(d) ==
  /\ pc \in Idle
  /\ calls < MaxCalls
  /\ calls' = calls + 1
  /\ caller' = "main"
  /\ dt' = d
  /\ entry' = bodies
  /\ pc' = "acc_reset"
  /\ aret' = "sv1"
  /\ UNCHANGED <<bodies, scatters, lines, sub, i, j, k, visited, nsteps>>

\* First `for b in bodies` loop, body k; after the last body, the second
\* accelerations(bodies).
Loop1 ==
  /\ pc = "sv_loop1"
  /\ bodies' = [bodies EXCEPT ![k] = KickDrift(@, dt)]
  /\ IF LoopDone(k, N)
       THEN pc' = "acc_reset" /\ aret' = "sv2" /\ k' = k
       ELSE pc' = pc /\ aret' = aret /\ k' = k + 1
  /\ UNCHANGED <<scatters, lines, caller, sub, dt, i, j, visited, entry,
                 nsteps, calls>>

\* Second `for b in bodies` loop, body k; after the last body step_verlet
\* returns, to the driver or to the head of update's sub-step loop.
Loop2 ==
  /\ pc = "sv_loop2"
  /\ bodies' = [bodies EXCEPT ![k] = Kick(@, dt)]
  /\ IF ~LoopDone(k, N)
       THEN /\ k' = k + 1
            /\ UNCHANGED <<pc, sub, nsteps>>
       ELSE /\ k' = k
            /\ nsteps' = nsteps + 1
            /\ pc' = StepReturn(caller)
            /\ sub' = IF caller = "update" THEN sub + 1 ELSE sub
  /\ UNCHANGED <<scatters, lines, caller, dt, aret, i, j, visited, entry, calls>>

\* ------------------------------------------------------------------ update
\* update(frame) called by FuncAnimation.
CallUpdate ==
  /\ pc \in Idle
  /\ calls < MaxCalls
  /\ calls' = calls + 1
  /\ caller' = "update"
  /\ sub' = 0
  /\ pc' = "upd_loop"
  /\ UNCHANGED <<bodies, scatters, lines, dt, aret, i, j, k, visited, entry,
                 nsteps>>

\* `for _ in range(SUBSTEPS): step_verlet(bodies, DT)`: one more iteration.
UpdStep ==
  /\ pc = "upd_loop"
  /\ sub < SUBSTEPS
  /\ dt' = DT
  /\ entry' = bodies
  /\ pc' = "acc_reset"
  /\ aret' = "sv1"
  /\ UNCHANGED <<bodies, scatters, lines, caller, sub, i, j, k, visited,
                 nsteps, calls>>

\* The sub-step loop is over: the `for idx, b in enumerate(bodies)` loop of
\* update, and its return.
UpdRead ==
  /\ pc = "upd_loop"
  /\ ~(sub < SUBSTEPS)
  /\ bodies' = [x \in 1..N |->
                  [bodies[x] EXCEPT !.trail = DequeAppend(@, bodies[x].r)]]
  /\ scatters' = [x \in 1..N |-> bodies[x].r]
  /\ lines' = [x \in 1..N |->
                 IF Len(bodies'[x].trail) >= 2
                   THEN Unzip(bodies'[x].trail) ELSE lines[x]]
  /\ pc' = "done_update"
  /\ UNCHANGED <<caller, sub, dt, aret, i, j, k, visited, entry, nsteps, calls>>

Next ==
  \/ \E c \in 1..Len(Catalogue) : Body(c)
  \/ SetupFourBodies
  \/ \E args \in TwoBodyArgs : SetupTwoBodies(args[1], args[2], args[3])
  \/ ScriptToComFrame
  \/ CallToComFrame
  \/ CallAccelerations
  \/ AccReset
  \/ AccPair
  \/ \E d \in StepDts : CallStepVerlet(d)
  \/ Loop1
  \/ Loop2
  \/ CallUpdate
  \/ UpdStep
  \/ UpdRead

Spec == Init /\ [][Next]_vars

\* ------------------------------------------------------------ measurements
\* A valid system: at least one body, every mass positive.
Valid(bs) == Len(bs) >= 1 /\ \A x \in 1..Len(bs) : bs[x].m > 0

\* Component c of the exact sum of m_i * f_i, in units of 1/Scale^2, where
\* f is "r", "v" or "a".
Moment(bs, f, c) ==
  SumSeq([x \in 1..Len(bs) |->
            bs[x].m * (CASE f = "r" -> bs[x].r[c]
                         [] f = "v" -> bs[x].v[c]
                         [] f = "a" -> bs[x].a[c])])

\* Largest difference in any position or velocity component between two
\* body lists of the same length, in ulp.
RECURSIVE MaxOf(_)
MaxOf(s) == IF s = <<>> THEN 0
            ELSE LET m == MaxOf(Tail(s)) IN IF Head(s) > m THEN Head(s) ELSE m

Distance(bs, cs) ==
  MaxOf([x \in 1..Len(bs) |->
           MaxOf(<< Abs(bs[x].r[1] - cs[x].r[1]), Abs(bs[x].r[2] - cs[x].r[2]),
                    Abs(bs[x].v[1] - cs[x].v[1]), Abs(bs[x].v[2] - cs[x].v[2]) >>)])

\* -------------------------------------------------------------- references
\* accelerations as a function of positions and masses alone: body x gets
\* +fvec / m_x from every pair (x, y), y > x, and -fvec / m_x from every pair
\* (y, x), y < x.
AccelRef(bs) ==
  [x \in 1..Len(bs) |->
     [bs[x] EXCEPT !.a =
        VSub(VSumSeq([y \in 1..(Len(bs) - x) |->
                        VDiv(PairForce(bs[x], bs[x + y]), bs[x].m)]),
             VSumSeq([y \in 1..(x - 1) |->
                        VDiv(PairForce(bs[y], bs[x]), bs[x].m)]))]]

\* Steps 2 and 5 of step_verlet's docstring for every body, v += 0.5*dt*a,
\* and step 3 for every body, r += dt*v.
KickAll(bs, d) ==
  [x \in 1..Len(bs) |-> [bs[x] EXCEPT !.v = VAdd(@, VScale(HalfDt(d), bs[x].a))]]
DriftAll(bs, d) ==
  [x \in 1..Len(bs) |-> [bs[x] EXCEPT !.r = VAdd(@, VScale(d, bs[x].v))]]

\* The five steps of step_verlet's docstring, each applied to every body
\* before the next begins.
VerletRef(bs, d) ==
  KickAll(AccelRef(DriftAll(KickAll(AccelRef(bs), d), d)), d)

\* Positions and velocities, and with the accelerations, of a body list.
PosVel(bs) == [x \in 1..Len(bs) |-> <<bs[x].r, bs[x].v>>]
Phys(bs)   == [x \in 1..Len(bs) |-> <<bs[x].r, bs[x].v, bs[x].a>>]
Cache(bs)  == [x \in 1..Len(bs) |-> bs[x].a]

\* Largest dt any caller passes.
MaxDt == CHOOSE d \in StepDts \cup {DT} : \A e \in StepDts \cup {DT} : e <= d

\* step_verlet has been called and has returned, and nothing else has run
\* since: to the driver, or to the head of update's loop.
StepReturned == pc = "done_step" \/ (pc = "upd_loop" /\ sub > 0)

\* No step_verlet call is under way.
BetweenSteps == pc \in Idle \/ pc = "upd_loop"

\* ------------------------------------------------------------------ claims
\* Rounding bounds, in units of 1/Scale^2 (masses are in units of 1/Scale):
\*  - to_com_frame leaves |sum m_i r_i| <= (N*Scale + M)/2: N products
\*    rounded by 1/2 ulp each, one quotient rounded by 1/2 ulp, times M;
\*  - one pair leaves |m_i da_i + m_j da_j| <= (m_i + m_j)/2, so one
\*    accelerations call leaves |sum m_i a_i| <= (N-1)*M/2;
\*  - one kick v += (0.5*dt)*a changes sum m_i v_i by at most
\*    M/2 + (0.5*dt)*(N-1)*M/2, and step_verlet kicks twice.
ComTol2(bs)   == Len(bs) * Scale + TotalMass(bs)
AccTol2(bs)   == (Len(bs) - 1) * TotalMass(bs)
DriftTol2(bs) ==
  2 * TotalMass(bs) + 2 * ((HalfDt(MaxDt) * AccTol2(bs)) \div (2 * Scale) + 1)

\* C1: in a valid system, after to_com_frame and any number of completed
\* step_verlet calls, each component of the total momentum sum m_i * v_i is
\* zero within the rounding tolerance: the tolerance of to_com_frame plus one
\* step's drift per completed step.
C1_MomentumConserved ==
  (BetweenSteps /\ Valid(bodies)) =>
    \A c \in 1..2 :
      2 * Abs(Moment(bodies, "v", c)) <= ComTol2(bodies) + nsteps * DriftTol2(bodies)

C1_Witness ==
  /\ pc = "done_step"
  /\ Valid(bodies)
  /\ N = 4
  /\ nsteps = 1 + SUBSTEPS
  /\ dt = MaxDt
  /\ bodies[1].v # entry[1].v

\* C2 as stated, for the bodies of setup_four_bodies: right after
\* to_com_frame the mass-weighted sums of the positions and of the velocities
\* are exactly zero.
C2_ExactlyZero ==
  (pc = "done_com" /\ Valid(bodies) /\ N = 4) =>
    \A c \in 1..2 : Moment(bodies, "r", c) = 0 /\ Moment(bodies, "v", c) = 0

\* C2 amended: a to_com_frame call on a valid system subtracts one r_com and
\* one v_com from every body, and leaves the mass-weighted sums of the
\* positions and of the velocities zero within the rounding tolerance.
C2_ComFrameZeroUpToRounding ==
  [][(pc' = "done_com" /\ Valid(bodies)) =>
       /\ \A c \in 1..2 :
            /\ 2 * Abs(Moment(bodies', "r", c)) <= ComTol2(bodies)
            /\ 2 * Abs(Moment(bodies', "v", c)) <= ComTol2(bodies)
       /\ \A x, y \in 1..N :
            /\ VSub(bodies'[x].r, bodies[x].r) = VSub(bodies'[y].r, bodies[y].r)
            /\ VSub(bodies'[x].v, bodies[x].v) = VSub(bodies'[y].v, bodies[y].v)]_vars

C2_Witness ==
  /\ pc = "done_com"
  /\ Valid(bodies)
  /\ N = 4
  /\ calls = 0
  /\ Moment(bodies, "r", 2) # 0
  /\ bodies[2].r # Catalogue[2].r

\* C3 as stated: no body ever has a mass <= 0, and once construction is over
\* the list is not empty.
C3_InvalidSystemsRejected ==
  /\ \A x \in 1..N : bodies[x].m > 0
  /\ pc \notin {"setup", "ZeroDivisionError", "ValueError"} => N >= 1

\* C4: the consumer's reads (update's trail, scatters and lines writes) happen
\* only when every sub-step of the frame has returned, and what is read is
\* the result of a whole step: positions and velocities are those of the five
\* steps applied to the state the last step_verlet call received.
C4_ReadsSeeCompletedSteps ==
  [][(pc \notin {"setup", "built"} /\
      (scatters' # scatters \/ lines' # lines \/
       \E x \in 1..N : bodies'[x].trail # bodies[x].trail)) =>
       /\ pc = "upd_loop"
       /\ sub = SUBSTEPS
       /\ PosVel(bodies) = PosVel(VerletRef(entry, dt))
       /\ \A x \in 1..N :
            /\ scatters'[x] = bodies[x].r
            /\ bodies'[x].trail[Len(bodies'[x].trail)] = bodies[x].r]_vars

C4_Witness ==
  /\ pc = "done_update"
  /\ N = 4
  /\ calls = 2
  /\ nsteps = 2 * SUBSTEPS
  /\ Len(bodies[1].trail) = 2
  /\ bodies[1].trail[1] # bodies[1].trail[2]
  /\ bodies[1].v # entry[1].v

\* C5 as stated: in a valid system a to_com_frame call that directly follows
\* a to_com_frame call changes nothing.
C5_ExactlyIdempotent ==
  [][(pc = "done_com" /\ pc' = "done_com" /\ Valid(bodies)) =>
       bodies' = bodies]_vars

\* C5 amended: a to_com_frame call that directly follows a to_com_frame call
\* moves no position or velocity component by more than the rounding error
\* of r_com and v_com, N/M + 1 ulp, and changes nothing else.
C5_IdempotentUpToRounding ==
  [][(pc = "done_com" /\ pc' = "done_com" /\ Valid(bodies)) =>
       /\ Distance(bodies', bodies) <= (N * Scale) \div TotalMass(bodies) + 1
       /\ \A x \in 1..N :
            bodies' [x] = [bodies[x] EXCEPT !.r = bodies'[x].r, !.v = bodies'[x].v]]_vars

C5_Witness ==
  /\ pc = "done_com"
  /\ Valid(bodies)
  /\ calls = 1
  /\ nsteps = 0
  /\ visited = <<>>
  /\ N = 4
  /\ bodies[1].r # Catalogue[1].r

\* C6: when step_verlet(bodies, dt) returns, positions, velocities and
\* accelerations are those of the five steps taken in order, each for every
\* body, from the state the call received, and the acceleration cache is the
\* force evaluation at the returned positions.
C6_StepIsVelocityVerlet ==
  StepReturned =>
    /\ Phys(bodies) = Phys(VerletRef(entry, dt))
    /\ Cache(bodies) = Cache(AccelRef(bodies))

C6_Witness ==
  /\ pc = "done_step"
  /\ dt = MaxDt
  /\ N = 3
  /\ nsteps = 2
  /\ \A x \in 1..N : bodies[x].r # entry[x].r /\ bodies[x].v # entry[x].v
                     /\ bodies[x].a # entry[x].a

\* accelerations has returned and no position has changed since.
AccReturned ==
  \/ pc = "done_acc"
  \/ pc = "sv_loop1" /\ k = 1
  \/ pc = "sv_loop2"

\* C7 as stated, for the bodies of setup_four_bodies: after any accelerations
\* call the sum of m_i * a_i is zero.
C7_ExactlyAntisymmetric ==
  (AccReturned /\ Valid(bodies) /\ N = 4) =>
    \A c \in 1..2 : Moment(bodies, "a", c) = 0

\* C7 amended: in a valid system, for every pair (i, j) the mass-weighted
\* contributions to a_i and a_j cancel up to the rounding of the two
\* quotients fvec / mi and fvec / mj, and after any accelerations call the
\* sum of m_i * a_i is zero within (N-1)*M/2 ulp.
C7_AntisymmetricUpToRounding ==
  /\ []((AccReturned /\ Valid(bodies)) =>
          \A c \in 1..2 : 2 * Abs(Moment(bodies, "a", c)) <= AccTol2(bodies))
  /\ [][(pc = "acc_pair" /\ pc' # "nonfinite" /\ Valid(bodies)) =>
          \A c \in 1..2 :
            2 * Abs(bodies[i].m * (bodies'[i].a[c] - bodies[i].a[c])
                    + bodies[j].m * (bodies'[j].a[c] - bodies[j].a[c]))
              <= bodies[i].m + bodies[j].m]_vars

C7_Witness ==
  /\ pc = "done_acc"
  /\ Valid(bodies)
  /\ N = 4
  /\ Len(visited) = 6
  /\ Moment(bodies, "a", 1) # 0
  /\ \A x \in 1..N : bodies[x].a # Zero2

\* The unordered pairs of n bodies, as <<a, b>> with a < b.
AllPairs(n) == {p \in (1..n) \X (1..n) : p[1] < p[2]}

\* C8: one accelerations call on N bodies evaluates every pair a < b exactly
\* once and nothing else: N*(N-1)/2 evaluations.
C8_EveryPairOnce ==
  (pc \in {"done_acc", "sv_loop1", "sv_loop2"}) =>
    /\ 2 * Len(visited) = N * (N - 1)
    /\ {visited[x] : x \in 1..Len(visited)} = AllPairs(N)

C8_Witness ==
  /\ pc = "done_acc"
  /\ N = 4
  /\ Len(visited) = 6

\* C9: the accelerations a call leaves are a function of the positions and
\* masses alone, whatever the cache held before the call.
C9_OverwritesCache ==
  AccReturned => Cache(bodies) = Cache(AccelRef(bodies))

C9_Witness ==
  /\ pc = "done_acc"
  /\ N >= 3
  /\ calls = 2
  /\ nsteps = 0
  /\ \A x \in 1..N : bodies[x].a # Zero2

\* C10: once the list is built no call changes its length, its order or a
\* mass; accelerations changes only the acceleration fields; to_com_frame
\* leaves the acceleration fields alone.
C10_FrameEffects ==
  [][pc \notin {"setup"} =>
       /\ Len(bodies') = Len(bodies)
       /\ \A x \in 1..N : /\ bodies'[x].m = bodies[x].m
                          /\ bodies'[x].color = bodies[x].color
       /\ TotalMass(bodies') = TotalMass(bodies)
       /\ pc \in {"acc_reset", "acc_pair"} =>
            \A x \in 1..N : bodies'[x] = [bodies[x] EXCEPT !.a = bodies'[x].a]
       /\ pc' = "done_com" =>
            \A x \in 1..N :
              bodies'[x] = [bodies[x] EXCEPT !.r = bodies'[x].r, !.v = bodies'[x].v]]_vars

C10_Witness ==
  /\ pc = "done_com"
  /\ N = 4
  /\ calls = 2
  /\ nsteps = SUBSTEPS
  /\ \A x \in 1..N : bodies[x].a # Zero2 /\ Len(bodies[x].trail) = 1

====
